---- MODULE Spec2Model ----
(***************************************************************************)
(* SortedList (src/src/lib.rs): a bucketed sorted list, _lists, with a     *)
(* segment tree over the bucket sizes, _index_tree.                        *)
(*                                                                         *)
(* Every method of the source is an operator over a record                 *)
(*   [lists, tree, offset, len, panic]                                     *)
(* that returns the record after the call.  A Rust panic! (explicit, or an *)
(* out-of-bounds index, or an arithmetic overflow of a debug build) is the *)
(* field panic # "none", set at the point of failure: the other fields     *)
(* keep what the call had written until then.                              *)
(*                                                                         *)
(* Vec indices are 0-based as in the source; At/VecSet/VecInsert/VecRemove *)
(* translate them to TLA+ sequences.  The tree is a function on            *)
(* 0 .. 2*offset-1.                                                        *)
(*                                                                         *)
(* The load factors and the tree offset have their source values (1024,    *)
(* 2048, 512 and 32), so a bucket is split at 2049 elements and merged     *)
(* below 512.  The state machine visits the short lists, of one bucket, in *)
(* every order of calls, and the long lists that from() and the loops of   *)
(* the tests build at the lengths where from() cuts, insert splits and     *)
(* remove merges, with one call behind them.                               *)
(***************************************************************************)
EXTENDS Integers, Sequences, FiniteSets, TLC

VARIABLES _lists, _index_tree, _index_tree_offset, _len, panic, last, copy

vars == <<_lists, _index_tree, _index_tree_offset, _len, panic, last, copy>>

(***************************************************************************)
(* Bounds of the model.                                                    *)
(***************************************************************************)
MaxVal == 2
\* the most elements of a short list, which has one bucket
MaxLen == 6
MaxBatch == 6
MaxShuffled == 4

Values == 1..MaxVal

(***************************************************************************)
(* Program constants (lib.rs:52-55).                                       *)
(***************************************************************************)
DEFAULT_INDEX_TREE_OFFSET == 32
DEFAULT_LOAD_FACTOR == 1024
DEFAULT_UPPER_LOAD_FACTOR == 2048
DEFAULT_LOWER_LOAD_FACTOR == 512

(***************************************************************************)
(* usize.  A length is a number below 2^31 here; usize::MAX = 2^64 - 1 is  *)
(* written in base 2^16, most significant digit first, and a length is     *)
(* brought to the same form before the two are compared.                   *)
(***************************************************************************)
USIZE_MAX == <<65535, 65535, 65535, 65535>>
usize(n) == <<0, 0, n \div 65536, n % 65536>>
\* a < b
usize_lt(a, b) ==
    \E d \in 1..4 : a[d] < b[d] /\ \A c \in 1..(d - 1) : a[c] = b[c]
\* usize::min
usize_min(a, b) == IF usize_lt(a, b) THEN a ELSE b

(***************************************************************************)
(* std::vec::Vec and Option, as far as the source uses them.               *)
(***************************************************************************)
At(v, i) == v[i + 1]
VecSet(v, i, e) == [v EXCEPT ![i + 1] = e]
VecInsert(v, i, e) == SubSeq(v, 1, i) \o <<e>> \o SubSeq(v, i + 1, Len(v))
VecRemove(v, i) == SubSeq(v, 1, i) \o SubSeq(v, i + 2, Len(v))
Min(a, b) == IF a < b THEN a ELSE b

None == <<"None">>
Some(v) == <<"Some", v>>
Panic(msg) == <<"Panic", msg>>
Ok(v) == <<"Ok", v>>
Err(v) == <<"Err", v>>

IsSorted(v) == \A p \in 1..(Len(v) - 1) : v[p] <= v[p + 1]

\* the number of elements of the sorted slice v that are < e (strict), or
\* <= e (not strict), by bisection of v[lo..hi)
RECURSIVE partition_point(_, _, _, _, _)
partition_point(v, e, strict, lo, hi) ==
    IF lo >= hi THEN lo
    ELSE LET mid == (lo + hi) \div 2
         IN  IF At(v, mid) < e \/ (~strict /\ At(v, mid) = e)
             THEN partition_point(v, e, strict, mid + 1, hi)
             ELSE partition_point(v, e, strict, lo, mid)

\* [T]::binary_search on a sorted slice, by its contract: Ok(p) for any p
\* with v[p] = e ("if there are multiple matches, then any one of the matches
\* could be returned"), else Err(p) with p the insertion point.
slice_binary_search(v, e) ==
    LET lo == partition_point(v, e, TRUE, 0, Len(v))
        hi == partition_point(v, e, FALSE, 0, Len(v))
    IN  IF lo < hi THEN {Ok(p) : p \in lo..(hi - 1)} ELSE {Err(lo)}

\* the positions `match v.binary_search(&e) { Ok(p) => p, Err(p) => p }`
\* can give to Vec::insert: the place of any match, or the insertion point
\* when there is none (the positions of slice_binary_search, without the
\* tag)
binary_search_pos(v, e) ==
    LET lo == partition_point(v, e, TRUE, 0, Len(v))
        hi == partition_point(v, e, FALSE, 0, Len(v))
    IN  IF lo < hi THEN lo..(hi - 1) ELSE {lo}

\* the Vec after `v.insert(pos, e)` with pos one of binary_search_pos(v, e).
\* Which match the search returns is not told by the Vec: an element put
\* in front of any of its matches gives the same Vec (InsertAtAnyMatch).
insert_at_pos(v, e) == VecInsert(v, CHOOSE pos \in binary_search_pos(v, e) : TRUE, e)

\* Vec::sort (stable, ascending) of a batch of integers: every key as often
\* as the batch has it, in ascending order.  upTo[x] is the number of
\* elements <= x, so rank r holds the least key x with upTo[x] >= r.
sort(v) ==
    LET n == Len(v)
        keys == {v[p] : p \in 1..n}
    IN  CHOOSE w \in
            {[r \in 1..n |->
                 CHOOSE x \in DOMAIN upTo :
                     upTo[x] >= r /\ \A y \in DOMAIN upTo : y < x => upTo[y] < r] :
             upTo \in {[x \in keys |-> Cardinality({p \in 1..n : v[p] <= x})]}} : TRUE

(***************************************************************************)
(* The container                                                           *)
(***************************************************************************)
Self ==
    [lists |-> _lists, tree |-> _index_tree, offset |-> _index_tree_offset,
     len |-> _len, panic |-> "none"]

Panicked(s, msg) == [s EXCEPT !.panic = msg]

TreeLen(t) == Cardinality(DOMAIN t)
ZeroTree(n) == [node \in 0..(n - 1) |-> 0]

_load_factor == DEFAULT_LOAD_FACTOR
_upper_load_factor == DEFAULT_UPPER_LOAD_FACTOR
_lower_load_factor == DEFAULT_LOWER_LOAD_FACTOR

_default ==
    [lists |-> <<>>, tree |-> ZeroTree(2 * DEFAULT_INDEX_TREE_OFFSET),
     offset |-> DEFAULT_INDEX_TREE_OFFSET, len |-> 0, panic |-> "none"]

\* mutant: the offset is doubled while it is <= the number of buckets
RECURSIVE grow_offset_eager(_, _)
grow_offset_eager(off, n) == IF off <= n THEN grow_offset_eager(2 * off, n) ELSE off

\* lines 120-123: the smallest DEFAULT_INDEX_TREE_OFFSET * 2^j >= n
RECURSIVE GrowOffset(_, _)
GrowOffset(off, n) == IF off < n THEN GrowOffset(2 * off, n) ELSE off

\* lines 132-134: the internal nodes, from node down to 1
RECURSIVE SumUp(_, _)
SumUp(t, node) ==
    IF node < 1 THEN t
    ELSE SumUp([t EXCEPT ![node] = t[2 * node] + t[2 * node + 1]], node - 1)

\* mutant: the tree is resized and not zeroed first (no fill(0))
rebuild_index_tree_not_zeroed(s) ==
    LET off == GrowOffset(DEFAULT_INDEX_TREE_OFFSET, Len(s.lists))
        leaves == [node \in 0..(2 * off - 1) |->
                      IF node >= off /\ node - off < Len(s.lists)
                      THEN Len(At(s.lists, node - off))
                      ELSE IF node \in DOMAIN s.tree THEN s.tree[node] ELSE 0]
    IN  [s EXCEPT !.offset = off, !.tree = SumUp(leaves, off - 1)]

_rebuild_index_tree(s) ==
    LET off == GrowOffset(DEFAULT_INDEX_TREE_OFFSET, Len(s.lists))
        leaves == [node \in 0..(2 * off - 1) |->
                      IF node >= off /\ node - off < Len(s.lists)
                      THEN Len(At(s.lists, node - off))
                      ELSE 0]
    IN  [s EXCEPT !.offset = off, !.tree = SumUp(leaves, off - 1)]

\* mutant: a node whose range starts where the query ends counts as outside
RECURSIVE index_tree_sum_touching_out(_, _, _, _, _, _)
index_tree_sum_touching_out(s, ql, qr, node, l, r) ==
    IF ql <= l /\ r <= qr THEN s.tree[node]
    ELSE IF qr <= l \/ r < ql THEN 0
    ELSE LET m == (l + r) \div 2
         IN  index_tree_sum_touching_out(s, ql, qr, 2 * node, l, m)
             + index_tree_sum_touching_out(s, ql, qr, 2 * node + 1, m + 1, r)

RECURSIVE _index_tree_sum(_, _, _, _, _, _)
_index_tree_sum(s, ql, qr, node, l, r) ==
    IF ql <= l /\ r <= qr THEN s.tree[node]
    ELSE IF qr < l \/ r < ql THEN 0
    ELSE LET m == (l + r) \div 2
         IN  _index_tree_sum(s, ql, qr, 2 * node, l, m)
             + _index_tree_sum(s, ql, qr, 2 * node + 1, m + 1, r)

\* mutant: the sum takes one bucket more, qr + 1
index_tree_sum_through(s, ql, qr) == _index_tree_sum(s, ql, qr + 1, 1, 0, s.offset - 1)

\* the call with opt_node, opt_l, opt_r = None
index_tree_sum(s, ql, qr) == _index_tree_sum(s, ql, qr, 1, 0, s.offset - 1)

\* lines 174-177
RECURSIVE Propagate(_, _)
Propagate(t, node) ==
    IF node > 0
    THEN Propagate([t EXCEPT ![node] = t[2 * node] + t[2 * node + 1]], node \div 2)
    ELSE t

\* mutant: the leaf is updated and its ancestors are not
index_tree_add_leaf_only(s, i, val) ==
    LET node == s.offset + i
    IN  IF node >= TreeLen(s.tree)
        THEN Panicked(s, "index out of bounds")
        ELSE IF val < 0 /\ s.tree[node] < -val
        THEN Panicked(s, "attempt to subtract with overflow")
        ELSE [s EXCEPT !.tree = [s.tree EXCEPT ![node] = @ + val]]

_index_tree_add(s, i, val) ==
    LET node == s.offset + i
    IN  IF node >= TreeLen(s.tree)
        THEN Panicked(s, "index out of bounds")
        ELSE IF val < 0 /\ s.tree[node] < -val
        THEN Panicked(s, "attempt to subtract with overflow")
        ELSE [s EXCEPT !.tree =
                 Propagate([s.tree EXCEPT ![node] = @ + val], node \div 2)]

\* mutant: on a tie the bucket is merged with the left neighbour
collapse_ties_left(s, i) ==
    IF Len(s.lists) <= 1
    THEN Panicked(s, "Attempting to collapse")
    ELSE LET left == IF i >= 1 THEN usize(Len(At(s.lists, i - 1))) ELSE USIZE_MAX
             right == IF i + 1 < Len(s.lists) THEN usize(Len(At(s.lists, i + 1)))
                      ELSE USIZE_MAX
         IN  IF ~usize_lt(usize_min(left, right), USIZE_MAX)
             THEN Panicked(s, "assertion failed")
             ELSE IF ~usize_lt(right, left)
             THEN LET removed == At(s.lists, i)
                      l1 == VecRemove(s.lists, i)
                      l2 == VecSet(l1, i - 1, At(l1, i - 1) \o removed)
                  IN  _rebuild_index_tree([s EXCEPT !.lists = l2])
             ELSE LET removed == At(s.lists, i + 1)
                      l1 == VecRemove(s.lists, i + 1)
                      l2 == VecSet(l1, i, At(l1, i) \o removed)
                  IN  _rebuild_index_tree([s EXCEPT !.lists = l2])

_collapse(s, i) ==
    IF Len(s.lists) <= 1
    THEN Panicked(s, "Attempting to collapse")
    ELSE LET left == IF i >= 1 THEN usize(Len(At(s.lists, i - 1))) ELSE USIZE_MAX
             right == IF i + 1 < Len(s.lists) THEN usize(Len(At(s.lists, i + 1)))
                      ELSE USIZE_MAX
         IN  IF ~usize_lt(usize_min(left, right), USIZE_MAX)
             THEN Panicked(s, "assertion failed")
             ELSE IF usize_lt(left, right)
             THEN LET removed == At(s.lists, i)
                      l1 == VecRemove(s.lists, i)
                      l2 == VecSet(l1, i - 1, At(l1, i - 1) \o removed)
                  IN  _rebuild_index_tree([s EXCEPT !.lists = l2])
             ELSE LET removed == At(s.lists, i + 1)
                      l1 == VecRemove(s.lists, i + 1)
                      l2 == VecSet(l1, i, At(l1, i) \o removed)
                  IN  _rebuild_index_tree([s EXCEPT !.lists = l2])

\* mutant: the bucket is cut behind the element in the middle, at (size + 1) / 2
expand_upper_middle(s, i) ==
    IF Len(At(s.lists, i)) < _upper_load_factor
    THEN Panicked(s, "Unnecessary expand")
    ELSE LET size == Len(At(s.lists, i))
             removed == SubSeq(At(s.lists, i), (size + 1) \div 2 + 1, size)
             kept == SubSeq(At(s.lists, i), 1, (size + 1) \div 2)
             l1 == VecInsert(VecSet(s.lists, i, kept), i + 1, removed)
         IN  _rebuild_index_tree([s EXCEPT !.lists = l1])

_expand(s, i) ==
    IF Len(At(s.lists, i)) < _upper_load_factor
    THEN Panicked(s, "Unnecessary expand")
    ELSE LET size == Len(At(s.lists, i))
             removed == SubSeq(At(s.lists, i), size \div 2 + 1, size)
             kept == SubSeq(At(s.lists, i), 1, size \div 2)
             l1 == VecInsert(VecSet(s.lists, i, kept), i + 1, removed)
         IN  _rebuild_index_tree([s EXCEPT !.lists = l1])

\* mutant: a bucket that falls below LOWER is not merged
lists_remove_no_collapse(s, i, j) ==
    IF i >= Len(s.lists) \/ j >= Len(At(s.lists, i))
    THEN [s |-> Panicked(s, "List index out of range"), ret |-> Panic("List index out of range")]
    ELSE LET removed == At(At(s.lists, i), j)
             s1 == [s EXCEPT !.lists = VecSet(s.lists, i, VecRemove(At(s.lists, i), j)),
                             !.len = @ - 1]
             s2 == _index_tree_add(s1, i, -1)
         IN  [s |-> s2,
              ret |-> IF s2.panic = "none" THEN Ok(removed) ELSE Panic(s2.panic)]

\* mutant: a bucket that falls to LOWER, not below it, is merged already
lists_remove_collapse_at_lower(s, i, j) ==
    IF i >= Len(s.lists) \/ j >= Len(At(s.lists, i))
    THEN [s |-> Panicked(s, "List index out of range"), ret |-> Panic("List index out of range")]
    ELSE LET removed == At(At(s.lists, i), j)
             s1 == [s EXCEPT !.lists = VecSet(s.lists, i, VecRemove(At(s.lists, i), j)),
                             !.len = @ - 1]
             s2 == IF Len(s1.lists) > 1 /\ Len(At(s1.lists, i)) <= _lower_load_factor
                   THEN _collapse(s1, i)
                   ELSE _index_tree_add(s1, i, -1)
         IN  [s |-> s2,
              ret |-> IF s2.panic = "none" THEN Ok(removed) ELSE Panic(s2.panic)]

\* mutant: a bucket below LOWER is merged even when it is the sole bucket
lists_remove_collapse_sole(s, i, j) ==
    IF i >= Len(s.lists) \/ j >= Len(At(s.lists, i))
    THEN [s |-> Panicked(s, "List index out of range"), ret |-> Panic("List index out of range")]
    ELSE LET removed == At(At(s.lists, i), j)
             s1 == [s EXCEPT !.lists = VecSet(s.lists, i, VecRemove(At(s.lists, i), j)),
                             !.len = @ - 1]
             s2 == IF Len(At(s1.lists, i)) < _lower_load_factor
                   THEN _collapse(s1, i)
                   ELSE _index_tree_add(s1, i, -1)
         IN  [s |-> s2,
              ret |-> IF s2.panic = "none" THEN Ok(removed) ELSE Panic(s2.panic)]

\* returns [s, ret]: the container after the call and the removed element
_lists_remove(s, i, j) ==
    IF i >= Len(s.lists) \/ j >= Len(At(s.lists, i))
    THEN [s |-> Panicked(s, "List index out of range"), ret |-> Panic("List index out of range")]
    ELSE IF s.len = 0
    THEN [s |-> Panicked([s EXCEPT !.lists = VecSet(s.lists, i, VecRemove(At(s.lists, i), j))],
                         "attempt to subtract with overflow"),
          ret |-> Panic("attempt to subtract with overflow")]
    ELSE LET removed == At(At(s.lists, i), j)
             s1 == [s EXCEPT !.lists = VecSet(s.lists, i, VecRemove(At(s.lists, i), j)),
                             !.len = @ - 1]
             s2 == IF Len(s1.lists) > 1 /\ Len(At(s1.lists, i)) < _lower_load_factor
                   THEN _collapse(s1, i)
                   ELSE _index_tree_add(s1, i, -1)
         IN  [s |-> s2,
              ret |-> IF s2.panic = "none" THEN Ok(removed) ELSE Panic(s2.panic)]

\* mutant: the element is pushed at the end of the bucket
lists_insert_at_end(s, i, element) ==
    LET s1 == [s EXCEPT !.lists = VecSet(s.lists, i, Append(At(s.lists, i), element)),
                        !.len = @ + 1]
    IN  IF Len(At(s1.lists, i)) > _upper_load_factor
        THEN _expand(s1, i)
        ELSE _index_tree_add(s1, i, 1)

_lists_insert(s, i, element) ==
    LET s1 == [s EXCEPT !.lists = VecSet(s.lists, i, insert_at_pos(At(s.lists, i), element)),
                        !.len = @ + 1]
    IN  IF Len(At(s1.lists, i)) > _upper_load_factor
        THEN _expand(s1, i)
        ELSE _index_tree_add(s1, i, 1)

\* lines 237-244
RECURSIVE BisectLoop(_, _, _, _)
BisectLoop(lists, element, lo, hi) ==
    IF lo + 1 < hi
    THEN LET mid == (lo + hi) \div 2
         IN  IF Len(At(lists, mid)) = 0
             THEN Panic("index out of bounds")
             ELSE IF At(At(lists, mid), 0) <= element
             THEN BisectLoop(lists, element, mid, hi)
             ELSE BisectLoop(lists, element, lo, mid)
    ELSE Ok(lo)

\* Ok(k), or Panic when a bucket head that is read does not exist
_bisect_right_lists(s, element) ==
    IF Len(s.lists) = 0 \/ Len(At(s.lists, 0)) = 0
    THEN Panic("index out of bounds")
    ELSE IF At(At(s.lists, 0), 0) > element
    THEN Ok(0)
    ELSE LET hi == Len(s.lists) - 1
         IN  IF Len(At(s.lists, hi)) = 0
             THEN Panic("index out of bounds")
             ELSE IF At(At(s.lists, hi), 0) <= element
             THEN Ok(hi)
             ELSE BisectLoop(s.lists, element, 0, hi)

\* mutant: the sizes of the left subtrees are not taken off the rank
RECURSIVE descend_rank_kept(_, _, _)
descend_rank_kept(s, node, cnt) ==
    IF ~(node >= s.offset)
    THEN IF s.tree[2 * node] >= cnt
         THEN descend_rank_kept(s, 2 * node, cnt)
         ELSE descend_rank_kept(s, 2 * node + 1, cnt)
    ELSE <<node - s.offset, cnt - 1>>

\* mutant: the descent goes left only when the left subtree holds more than
\* the rank asks for
RECURSIVE descend_strict(_, _, _)
descend_strict(s, node, cnt) ==
    IF ~(node >= s.offset)
    THEN IF s.tree[2 * node] > cnt
         THEN descend_strict(s, 2 * node, cnt)
         ELSE descend_strict(s, 2 * node + 1, cnt - s.tree[2 * node])
    ELSE <<node - s.offset, cnt - 1>>

\* lines 260-267
RECURSIVE Descend(_, _, _)
Descend(s, node, cnt) ==
    IF ~(node >= s.offset)
    THEN IF s.tree[2 * node] >= cnt
         THEN Descend(s, 2 * node, cnt)
         ELSE Descend(s, 2 * node + 1, cnt - s.tree[2 * node])
    ELSE <<node - s.offset, cnt - 1>>

\* mutant: a rank behind the end is taken as the last rank
locate_kth_element_clamped(s, k) ==
    IF s.len = 0
    THEN Panic("SortedList: Index out of range.")
    ELSE Ok(Descend(s, 1, Min(k, s.len - 1) + 1))

\* Ok(<<i, j>>), or Panic
_locate_kth_element(s, k) ==
    IF k >= s.len
    THEN Panic("SortedList: Index out of range.")
    ELSE Ok(Descend(s, 1, k + 1))

_at(s, i, j) ==
    IF i >= Len(s.lists) \/ j >= Len(At(s.lists, i))
    THEN Panic("index out of bounds")
    ELSE Ok(At(At(s.lists, i), j))

RECURSIVE Concat(_)
Concat(lists) ==
    IF Len(lists) = 0 THEN <<>>
    ELSE Concat(SubSeq(lists, 1, Len(lists) - 1)) \o lists[Len(lists)]

_flat(s) == Concat(s.lists)

(***************************************************************************)
(* Public methods                                                          *)
(***************************************************************************)
new == _default

\* Ok(element), or Panic
kth_smallest(s, k) ==
    LET loc == _locate_kth_element(s, k)
    IN  IF loc[1] = "Panic" THEN loc ELSE _at(s, loc[2][1], loc[2][2])

\* mutant: the tree is resized and not emptied first
clear_tree_kept(s) ==
    [s EXCEPT !.lists = <<>>,
              !.tree = [node \in 0..(2 * DEFAULT_INDEX_TREE_OFFSET - 1) |->
                           IF node \in DOMAIN s.tree THEN s.tree[node] ELSE 0],
              !.offset = DEFAULT_INDEX_TREE_OFFSET,
              !.len = 0]

clear(s) ==
    [s EXCEPT !.lists = <<>>,
              !.tree = ZeroTree(2 * DEFAULT_INDEX_TREE_OFFSET),
              !.offset = DEFAULT_INDEX_TREE_OFFSET,
              !.len = 0]

\* mutant: the bucket is looked up in an empty container too
insert_always_bisect(s, element) ==
    LET k == _bisect_right_lists(s, element)
    IN  IF k[1] = "Panic" THEN Panicked(s, k[2])
        ELSE _lists_insert(s, k[2], element)

insert(s, element) ==
    IF s.len = 0
    THEN _lists_insert([s EXCEPT !.lists = <<<<>>>>], 0, element)
    ELSE LET k == _bisect_right_lists(s, element)
         IN  IF k[1] = "Panic" THEN Panicked(s, k[2])
             ELSE _lists_insert(s, k[2], element)

\* returns [s, ret]
remove(s, k) ==
    LET loc == _locate_kth_element(s, k)
    IN  IF loc[1] = "Panic" THEN [s |-> Panicked(s, loc[2]), ret |-> loc]
        ELSE _lists_remove(s, loc[2][1], loc[2][2])

\* mutant: the rank inside the bucket is returned as the rank
binary_search_in_bucket(s, element) ==
    IF s.len = 0 THEN {Err(0)}
    ELSE LET i == _bisect_right_lists(s, element)
         IN  IF i[1] = "Panic" THEN {i}
             ELSE slice_binary_search(At(s.lists, i[2]), element)

\* lines 407-411: Err(0) of an empty container, else the bucket the call
\* looks in, Ok(i), or the panic of the lookup
binary_search_bucket(s, element) ==
    IF s.len = 0 THEN Err(0) ELSE _bisect_right_lists(s, element)

\* lines 416-419: the results of the slice, d ranks further
shifted(rs, d) == {<<r[1], r[2] + d>> : r \in rs}

\* lines 412-419, i the bucket
binary_search_in(s, element, i) ==
    IF i = 0
    THEN slice_binary_search(At(s.lists, i), element)
    ELSE shifted(slice_binary_search(At(s.lists, i), element), index_tree_sum(s, 0, i - 1))

\* the set of results the call can return: Ok(rank) / Err(rank), or Panic
binary_search(s, element) ==
    IF binary_search_bucket(s, element)[1] # "Ok"
    THEN {binary_search_bucket(s, element)}
    ELSE binary_search_in(s, element, binary_search_bucket(s, element)[2])

Val(v) == <<"Val", v>>

contains(s, element) ==
    {IF r[1] = "Panic" THEN r ELSE Val(r[1] = "Ok") : r \in binary_search(s, element)}


len(s) == s.len

is_empty(s) == len(s) = 0

\* SortedList::last (`last` is the variable of the state machine)
last_(s) ==
    IF is_empty(s) THEN None
    ELSE IF Len(s.lists) = 0 THEN Panic("called Option::unwrap() on a None value")
    ELSE LET l == At(s.lists, Len(s.lists) - 1)
         IN  IF Len(l) = 0 THEN None ELSE Some(At(l, Len(l) - 1))

first(s) ==
    IF is_empty(s) THEN None
    ELSE IF Len(s.lists) = 0 THEN Panic("called Option::unwrap() on a None value")
    ELSE LET l == At(s.lists, 0)
         IN  IF Len(l) = 0 THEN None ELSE Some(At(l, 0))

get(s, index) ==
    IF is_empty(s) \/ len(s) <= index THEN None
    ELSE LET r == kth_smallest(s, index)
         IN  IF r[1] = "Panic" THEN r ELSE Some(r[2])

flatten(s) == _flat(s)

to_vec(s) == Concat(s.lists)

iter(s) == Concat(s.lists)

index(s, k) == kth_smallest(s, k)

\* lines 634-639, the body of the loop: st = [lists, last_list_size]
FromStep(st, element) ==
    LET l1 == [st.lists EXCEPT ![Len(st.lists)] = Append(@, element)]
    IN  IF st.last_list_size + 1 = _load_factor
        THEN [lists |-> Append(l1, <<>>), last_list_size |-> 0]
        ELSE [lists |-> l1, last_list_size |-> st.last_list_size + 1]

\* lines 633-640, the loop over array[lo..hi] in order.  The range is halved
\* and the first half is evaluated before the second one is entered, which
\* keeps the evaluation shallow; last_list_size is below the load factor
\* after every step.
RECURSIVE FromLoop(_, _, _, _)
FromLoop(st, array, lo, hi) ==
    IF lo > hi THEN st
    ELSE IF lo = hi THEN FromStep(st, array[lo])
    ELSE LET mid == (lo + hi) \div 2
             head == FromLoop(st, array, lo, mid)
         IN  IF head.last_list_size < _load_factor
             THEN FromLoop(head, array, mid + 1, hi)
             ELSE head

\* lines 629-644: the container built from the sorted batch
from_sorted(array) ==
    _rebuild_index_tree(
        [_default EXCEPT
            !.len = Len(array),
            !.lists = FromLoop([lists |-> <<<<>>>>, last_list_size |-> 0],
                               array, 1, Len(array)).lists])

\* mutant: the batch is not sorted
from_unsorted(B) == from_sorted(B)

from(B) == from_sorted(sort(B))

(***************************************************************************)
(* The reference of tests::random_tests: a sorted Vec, `copy`.             *)
(***************************************************************************)
copy_insert(c, x) == insert_at_pos(c, x)

copy_get(c, k) == IF k < Len(c) THEN Some(At(c, k)) ELSE None
copy_first(c) == IF Len(c) = 0 THEN None ELSE Some(c[1])
copy_last(c) == IF Len(c) = 0 THEN None ELSE Some(c[Len(c)])

(***************************************************************************)
(* Loops of calls, as the tests make them (the data setup and the removals *)
(* of tests::random_tests): n inserts of one value, n removes at one rank. *)
(* The loop is cut in two halves and the first half is evaluated before    *)
(* the second one is entered, which keeps the evaluation shallow.          *)
(***************************************************************************)
RECURSIVE insert_run(_, _, _)
\* the second half of the loop, behind the first one h: a panic ends it
insert_rest(h, x, m) == IF h.panic = "none" THEN insert_run(h, x, m) ELSE h
insert_run(s, x, n) ==
    IF n = 0 THEN s
    ELSE IF n = 1 THEN insert(s, x)
    ELSE insert_rest(insert_run(s, x, n \div 2), x, n - n \div 2)

\* returns [s, ret] of the last remove made
RECURSIVE remove_run(_, _, _)
remove_rest(h, k, m) == IF h.s.panic = "none" THEN remove_run(h, k, m) ELSE h
remove_run(r, k, n) ==
    IF n = 0 THEN r
    ELSE IF n = 1 THEN remove(r.s, k)
    ELSE remove_rest(remove_run(r, k, n \div 2), k, n - n \div 2)

\* the reference after the same loops: n copies of x, each put at one of
\* the positions of binary_search_pos, are n copies at any one of them
copy_insert_run(c, x, n) ==
    LET pos == CHOOSE p \in binary_search_pos(c, x) : TRUE
    IN  SubSeq(c, 1, pos) \o [p \in 1..n |-> x] \o SubSeq(c, pos + 1, Len(c))
copy_remove_run(c, k, n) == SubSeq(c, 1, k) \o SubSeq(c, k + n + 1, Len(c))

(***************************************************************************)
(* The state machine: one container and its reference; `last` is the last  *)
(* call that wrote the state (or panicked), its argument, what it returned *)
(* and what the reference returned.                                        *)
(***************************************************************************)
\* the descending sequences of exactly n values
RECURSIVE Descending(_)
Descending(n) ==
    IF n = 0 THEN {<<>>}
    ELSE {Append(v, x) : v \in Descending(n - 1), x \in Values}
             \ {w \in [1..n -> Values] : n > 1 /\ w[n] > w[n - 1]}

\* the short batches from() is given: every sequence of at most MaxShuffled
\* values and every descending sequence of at most MaxBatch values
Batches ==
    UNION {[1..n -> Values] : n \in 0..MaxShuffled}
        \cup UNION {Descending(n) : n \in 0..MaxBatch}

\* the long batches: b twos and then a ones, which from() sorts into a ones
\* and b twos.  Their lengths are those around which from() starts its
\* second, its fourth and its 33rd bucket (the one the default tree has no
\* leaf for), and those that leave a last bucket of about LOWER elements
\* behind one full bucket and behind 31 of them.
Around(n) == {n - 1, n, n + 1}
Block(a, b) == [p \in 1..(a + b) |-> IF p <= b THEN 2 ELSE 1]
LongShapes ==
    {<<a, 0>> : a \in Around(DEFAULT_LOAD_FACTOR)}
        \cup {<<DEFAULT_LOAD_FACTOR, b>> : b \in Around(DEFAULT_LOWER_LOAD_FACTOR)}
        \cup {<<DEFAULT_LOAD_FACTOR, b>> : b \in Around(2 * DEFAULT_LOAD_FACTOR)}
        \cup {<<(DEFAULT_INDEX_TREE_OFFSET - 1) * DEFAULT_LOAD_FACTOR, b>> :
                  b \in Around(DEFAULT_LOWER_LOAD_FACTOR)}
        \cup {<<a, 0>> : a \in Around(DEFAULT_INDEX_TREE_OFFSET * DEFAULT_LOAD_FACTOR)}
LongBatches == {Block(sh[1], sh[2]) : sh \in LongShapes}

Store(s) ==
    /\ _lists' = s.lists
    /\ _index_tree' = s.tree
    /\ _index_tree_offset' = s.offset
    /\ _len' = s.len
    /\ panic' = s.panic

\* a call, and a loop of `times` calls with one argument (ret and expect
\* are those of its last call)
Loop(op, arg, ret, expect, times) ==
    [op |-> op, arg |-> arg, ret |-> ret, expect |-> expect, times |-> times]
Call(op, arg, ret, expect) == Loop(op, arg, ret, expect, 1)

\* a short list takes every call that leaves it short; a long list takes one
\* call behind its construction or behind a loop
Built == IF last.op = "from" THEN TRUE ELSE last.times > 1
Writable == IF _len <= MaxLen THEN TRUE ELSE Built

\* a query: the container is not written; the value goes to the caller. A
\* panic ends the program, and `last` names the call that panicked.
Query(op, arg, ret) ==
    IF ret[1] = "Panic"
    THEN /\ panic' = ret[2]
         /\ last' = Call(op, arg, ret, <<>>)
         /\ UNCHANGED <<_lists, _index_tree, _index_tree_offset, _len, copy>>
    ELSE UNCHANGED vars

InitNew ==
    /\ _lists = new.lists
    /\ _index_tree = new.tree
    /\ _index_tree_offset = new.offset
    /\ _len = new.len
    /\ panic = "none"
    /\ last = Call("new", <<>>, <<>>, <<>>)
    /\ copy = <<>>

InitFrom ==
    \E B \in Batches \cup LongBatches :
        \E s \in {from(B)} :
            /\ _lists = s.lists
            /\ _index_tree = s.tree
            /\ _index_tree_offset = s.offset
            /\ _len = s.len
            /\ panic = "none"
            /\ last = Call("from", B, <<>>, <<>>)
            /\ copy = sort(B)

Init == InitNew \/ InitFrom

Insert(x) ==
    /\ panic = "none"
    /\ Writable
    /\ _len # MaxLen
    /\ \E s \in {insert(Self, x)} :
          /\ Store(s)
          /\ last' = Call("insert", <<x>>, <<>>, <<>>)
          /\ copy' = IF s.panic = "none" THEN copy_insert(copy, x) ELSE copy

\* the ranks given to a call: of a short list every rank and the first one
\* out of range; of a long list the first rank, the first rank behind LOAD
\* elements, the last rank and the first one out of range
Ranks ==
    IF _len <= MaxLen THEN 0.._len
    ELSE {k \in {0, DEFAULT_LOAD_FACTOR, _len - 1, _len} : k <= _len}

Remove(k) ==
    /\ panic = "none"
    /\ Writable
    /\ \E r \in {remove(Self, k)} :
          /\ Store(r.s)
          /\ last' = Call("remove", <<k>>, r.ret,
                          IF k < Len(copy) THEN Ok(At(copy, k)) ELSE Panic("removal index"))
          /\ copy' = IF k < Len(copy) /\ r.s.panic = "none" THEN VecRemove(copy, k) ELSE copy

\* the data setup of tests::random_tests, behind the construction: LOAD
\* inserts of one value
InsertRun(x) ==
    /\ panic = "none"
    /\ last.op \in {"new", "from"}
    /\ \E s \in {insert_run(Self, x, DEFAULT_LOAD_FACTOR)} :
          /\ Store(s)
          /\ last' = Loop("insert", <<x>>, <<>>, <<>>, DEFAULT_LOAD_FACTOR)
          /\ copy' = IF s.panic = "none"
                     THEN copy_insert_run(copy, x, DEFAULT_LOAD_FACTOR) ELSE copy

\* the removals of tests::random_tests, behind the construction: LOWER
\* removes at one rank, all of them in range
RemoveRun(k) ==
    /\ panic = "none"
    /\ last.op = "from"
    /\ k + DEFAULT_LOWER_LOAD_FACTOR <= _len
    /\ \E r \in {remove_run([s |-> Self, ret |-> <<>>], k, DEFAULT_LOWER_LOAD_FACTOR)} :
          /\ Store(r.s)
          /\ last' = Loop("remove", <<k>>, r.ret,
                          Ok(At(copy, k + DEFAULT_LOWER_LOAD_FACTOR - 1)),
                          DEFAULT_LOWER_LOAD_FACTOR)
          /\ copy' = IF r.s.panic = "none"
                     THEN copy_remove_run(copy, k, DEFAULT_LOWER_LOAD_FACTOR) ELSE copy

Clear ==
    /\ panic = "none"
    /\ Store(clear(Self))
    /\ last' = Call("clear", <<>>, <<>>, <<>>)
    /\ copy' = <<>>

KthSmallest(k) ==
    /\ panic = "none"
    /\ Query("kth_smallest", <<k>>, kth_smallest(Self, k))

Index(k) ==
    /\ panic = "none"
    /\ Query("index", <<k>>, index(Self, k))

Get(k) ==
    /\ panic = "none"
    /\ Query("get", <<k>>, get(Self, k))

First ==
    /\ panic = "none"
    /\ Query("first", <<>>, first(Self))

Last ==
    /\ panic = "none"
    /\ Query("last", <<>>, last_(Self))

\* binary_search and contains panic where the lookup of the bucket does;
\* what they return otherwise goes to the caller
BinarySearch(x) ==
    /\ panic = "none"
    /\ \E r \in {binary_search_bucket(Self, x)} : Query("binary_search", <<x>>, r)

Contains(x) ==
    /\ panic = "none"
    /\ \E r \in {binary_search_bucket(Self, x)} : Query("contains", <<x>>, r)

LenOp ==
    /\ panic = "none"
    /\ Query("len", <<>>, Val(len(Self)))

IsEmpty ==
    /\ panic = "none"
    /\ Query("is_empty", <<>>, Val(is_empty(Self)))

Flatten ==
    /\ panic = "none"
    /\ Query("flatten", <<>>, Val(flatten(Self)))

ToVec ==
    /\ panic = "none"
    /\ Query("to_vec", <<>>, Val(to_vec(Self)))

Iter ==
    /\ panic = "none"
    /\ Query("iter", <<>>, Val(iter(Self)))

Next ==
    \/ \E x \in Values : Insert(x)
    \/ \E k \in Ranks : Remove(k)
    \/ \E x \in Values : InsertRun(x)
    \/ \E k \in Ranks : RemoveRun(k)
    \/ Clear
    \/ \E k \in Ranks : KthSmallest(k)
    \/ \E k \in Ranks : Index(k)
    \/ \E k \in Ranks : Get(k)
    \/ First
    \/ Last
    \/ \E x \in Values : BinarySearch(x)
    \/ \E x \in Values : Contains(x)
    \/ LenOp
    \/ IsEmpty
    \/ Flatten
    \/ ToVec
    \/ Iter

Spec == Init /\ [][Next]_vars

(***************************************************************************)
(* Vocabulary of the properties                                            *)
(***************************************************************************)
Buckets == 0..(Len(_lists) - 1)
Elements(v) == {v[p] : p \in 1..Len(v)}
Count(v, x) == Cardinality({p \in 1..Len(v) : v[p] = x})
Minimum(v) == CHOOSE m \in Elements(v) : \A e \in Elements(v) : m <= e
Maximum(v) == CHOOSE m \in Elements(v) : \A e \in Elements(v) : m >= e

RECURSIVE SumSizes(_)
SumSizes(lists) ==
    IF Len(lists) = 0 THEN 0
    ELSE SumSizes(SubSeq(lists, 1, Len(lists) - 1)) + Len(lists[Len(lists)])

\* the number of elements in buckets 0..i-1
SizeBefore(lists, i) == SumSizes(SubSeq(lists, 1, i))

\* the ranks in range a property asks for: every rank of a short list; the
\* first, the middle and the last rank of every bucket of a long one
RanksOf(s) ==
    IF s.len <= MaxLen THEN 0..(s.len - 1)
    ELSE UNION {LET b == SizeBefore(s.lists, i)
                    m == Len(At(s.lists, i))
                IN  IF m = 0 THEN {} ELSE {b, b + m \div 2, b + m - 1} :
                i \in 0..(Len(s.lists) - 1)}

\* the ranks behind the last one
RanksBehind(s) == s.len..(s.len + 2)

\* the results of a search a property follows up with further calls: all of
\* them when they are few, else the first and the last of every run of ranks
Tried(rs) ==
    {r \in rs :
        \/ Cardinality(rs) <= MaxLen + 1
        \/ <<r[1], r[2] - 1>> \notin rs
        \/ <<r[1], r[2] + 1>> \notin rs}

\* the positions of ps that are tried: all of them for a short Vec, the
\* first and the last one for a long one
TriedPos(ps, n) ==
    IF n <= MaxLen THEN ps ELSE {p \in ps : p - 1 \notin ps \/ p + 1 \notin ps}

\* `v.insert(pos, e)` gives the same Vec for every position the search of
\* a sorted Vec can return, in the buckets and in the reference: the Vec
\* with e behind the smaller elements, which is sorted
InsertAtAnyMatch ==
    \A v \in {At(_lists, i) : i \in Buckets} \cup {copy} :
        \A x \in Values :
            LET ps == binary_search_pos(v, x)
                smaller == Cardinality({p \in 1..Len(v) : v[p] < x})
            IN  /\ ps # {}
                /\ \A p \in TriedPos(ps, Len(v)) :
                      /\ VecInsert(v, p, x) = insert_at_pos(v, x)
                      /\ VecInsert(v, p, x) = VecInsert(v, smaller, x)
                /\ IsSorted(insert_at_pos(v, x))

\* from() left an empty bucket behind the full ones
TrailingEmptyBucket == Len(_lists) > 1 /\ Len(At(_lists, Len(_lists) - 1)) = 0
\* one key fills the end of a bucket and the start of the next
KeySpansBuckets ==
    \E i \in Buckets :
        /\ i + 1 < Len(_lists)
        /\ Len(At(_lists, i)) > 0 /\ Len(At(_lists, i + 1)) > 0
        /\ At(At(_lists, i), Len(At(_lists, i)) - 1) = At(At(_lists, i + 1), 0)

(***************************************************************************)
(* C1: the ordered view (flatten, to_vec, iter) is non-decreasing in every *)
(* state reached by insert, remove and clear from new() or from(B): every  *)
(* bucket is sorted ascending, and every element of a bucket is <= every   *)
(* element of the next bucket (last(buckets[i]) <= first(buckets[i+1])).   *)
(***************************************************************************)
C1_Sorted ==
    /\ IsSorted(flatten(Self))
    /\ IsSorted(to_vec(Self))
    /\ IsSorted(iter(Self))
    /\ \A i \in Buckets : IsSorted(At(_lists, i))
    /\ \A i \in Buckets :
          i + 1 < Len(_lists) =>
              \A a \in Elements(At(_lists, i)), b \in Elements(At(_lists, i + 1)) : a <= b

\* an insert into a list of three buckets or more that holds both values
C1_Witness ==
    /\ last.op = "insert"
    /\ panic = "none"
    /\ Len(_lists) >= 3
    /\ \A i \in Buckets : Len(At(_lists, i)) > 0
    /\ Cardinality(Elements(flatten(Self))) >= 2

(***************************************************************************)
(* C2: side by side with the reference sorted array, from from(B): every   *)
(* insert(x) completes and leaves flatten equal to the reference with x    *)
(* inserted; every remove(k), k < len, returns the reference's element at  *)
(* k and leaves flatten equal to the reference without it; and len(),      *)
(* is_empty() and get(k), k in or out of range, equal the reference's.     *)
(***************************************************************************)
C2_MatchesReference ==
    /\ last.op = "insert" => panic = "none"
    /\ (last.op = "remove" /\ last.expect[1] = "Ok") => last.ret = last.expect
    /\ panic = "none" =>
          /\ flatten(Self) = copy
          /\ len(Self) = Len(copy)
          /\ is_empty(Self) = (Len(copy) = 0)
          /\ \A k \in RanksOf(Self) \cup RanksBehind(Self) :
                get(Self, k) = copy_get(copy, k)

\* what is left of C2 when insert is not required to complete
C2_MatchesReferenceWhenCompleted ==
    /\ (last.op = "remove" /\ last.expect[1] = "Ok") => last.ret = last.expect
    /\ panic = "none" =>
          /\ flatten(Self) = copy
          /\ len(Self) = Len(copy)
          /\ is_empty(Self) = (Len(copy) = 0)
          /\ \A k \in RanksOf(Self) \cup RanksBehind(Self) :
                get(Self, k) = copy_get(copy, k)

(***************************************************************************)
(* C3: whenever binary_search(x) returns a result, it is Ok(r) iff x is an *)
(* element of the container, and then get(r) = Some(x); it is Err(r)       *)
(* otherwise, and then r is the number of elements smaller than x, and     *)
(* after insert(x) get(r) = Some(x) and the sequence is still sorted.      *)
(***************************************************************************)
C3_BinarySearch ==
    panic = "none" =>
        \A x \in Values :
            LET flat == flatten(Self)
                present == x \in Elements(flat)
                smaller == Cardinality({p \in 1..Len(flat) : flat[p] < x})
                after == insert(Self, x)
            IN  \A r \in binary_search(Self, x) :
                    r[1] # "Panic" =>
                        /\ r[1] \in {"Ok", "Err"}
                        /\ (r[1] = "Ok") <=> present
                        /\ r[1] = "Ok" => get(Self, r[2]) = Some(x)
                        /\ r[1] = "Err" =>
                              /\ r[2] = smaller
                              /\ after.panic = "none"
                              /\ get(after, r[2]) = Some(x)
                              /\ IsSorted(flatten(after))

\* a key that spans two buckets is found in the second one, and a key that
\* is absent gets a rank behind the first bucket
C3_Witness ==
    /\ panic = "none"
    /\ last.op \in {"insert", "remove"}
    /\ KeySpansBuckets
    /\ ~TrailingEmptyBucket
    /\ \E x \in Values : \E r \in binary_search(Self, x) :
          r[1] = "Ok" /\ r[2] >= Len(At(_lists, 0))
    /\ \E x \in Values : \E r \in binary_search(Self, x) :
          r[1] = "Err" /\ r[2] >= Len(At(_lists, 0))

(***************************************************************************)
(* C4: in every reachable state, get(k) for any k, first(), last(),        *)
(* binary_search(x) and contains(x) for any x never panic.                 *)
(***************************************************************************)
C4_QueriesNeverPanic ==
    ~(panic # "none" /\ last.op \in {"get", "first", "last", "binary_search", "contains"})

\* the part of C4 the code keeps: get, first and last never panic
C4_GetFirstLastNeverPanic ==
    panic = "none" =>
        /\ \A k \in RanksOf(Self) \cup RanksBehind(Self) : get(Self, k)[1] # "Panic"
        /\ first(Self)[1] # "Panic"
        /\ last_(Self)[1] # "Panic"

(***************************************************************************)
(* C5: first() is None iff the container is empty and Some(minimum)        *)
(* otherwise; last() is None iff the container is empty and Some(maximum)  *)
(* otherwise.                                                              *)
(***************************************************************************)
C5_FirstLast ==
    panic = "none" =>
        LET flat == flatten(Self)
        IN  /\ first(Self) = IF flat = <<>> THEN None ELSE Some(Minimum(flat))
            /\ last_(Self) = IF flat = <<>> THEN None ELSE Some(Maximum(flat))

\* the part of C5 the code keeps: first()
C5_First ==
    panic = "none" =>
        LET flat == flatten(Self)
        IN  first(Self) = IF flat = <<>> THEN None ELSE Some(Minimum(flat))

(***************************************************************************)
(* C6: for any rank k >= len, kth_smallest(k), remove(k) and [k] panic,    *)
(* and _lists, _index_tree, _index_tree_offset and _len are unchanged at   *)
(* the point of failure.                                                   *)
(***************************************************************************)
C6_OutOfRangeFailsFast ==
    panic = "none" =>
          \A k \in RanksBehind(Self) :
              LET removed == remove(Self, k)
              IN  /\ kth_smallest(Self, k)[1] = "Panic"
                  /\ index(Self, k)[1] = "Panic"
                  /\ removed.ret[1] = "Panic"
                  /\ removed.s.panic # "none"
                  /\ removed.s.lists = _lists
                  /\ removed.s.tree = _index_tree
                  /\ removed.s.offset = _index_tree_offset
                  /\ removed.s.len = _len

\* remove(len) has panicked on a list of two buckets
C6_Witness ==
    /\ panic = "SortedList: Index out of range."
    /\ last.op = "remove"
    /\ last.arg[1] = _len
    /\ Len(_lists) >= 2
    /\ \A i \in Buckets : Len(At(_lists, i)) > 0
    /\ SumSizes(_lists) = _len
    /\ _index_tree[1] = _len

(***************************************************************************)
(* C7: for any batch B, from(B).to_vec() and flatten() are the ascending   *)
(* sort of B (sorted, with every value as often as in B), and len() = |B|. *)
(***************************************************************************)
C7_FromBatch ==
    last.op = "from" =>
        /\ IsSorted(to_vec(Self))
        /\ \A x \in Values : Count(to_vec(Self), x) = Count(last.arg, x)
        /\ flatten(Self) = to_vec(Self)
        /\ len(Self) = Len(last.arg)
        /\ Len(to_vec(Self)) = Len(last.arg)

\* a batch of 3 * LOAD values, unsorted and with duplicates
C7_Witness ==
    /\ last.op = "from"
    /\ Len(last.arg) = 3 * _load_factor
    /\ ~IsSorted(last.arg)
    /\ to_vec(Self) # last.arg
    /\ Len(to_vec(Self)) = 3 * _load_factor

(***************************************************************************)
(* C8: for any reachable state and any x, insert(x) and then remove(r),    *)
(* r the rank binary_search(x) returns, returns x and leaves flatten and   *)
(* len as they were before the insert.                                     *)
(***************************************************************************)
InsertThenRemoveRestores(x) ==
    LET s1 == insert(Self, x)
        flat == flatten(Self)
    IN  /\ s1.panic = "none"
        /\ \A r \in binary_search(s1, x) : r[1] \in {"Ok", "Err"}
        /\ \A r \in Tried(binary_search(s1, x)) :
              LET removed == remove(s1, r[2])
              IN  /\ removed.ret = Ok(x)
                  /\ removed.s.panic = "none"
                  /\ flatten(removed.s) = flat
                  /\ removed.s.len = _len

C8_InsertRemoveRoundTrip ==
    panic = "none" => \A x \in Values : InsertThenRemoveRestores(x)

\* what is left of C8 in the states where from() left no empty bucket
C8_RoundTripWithoutEmptyBucket ==
    (panic = "none" /\ ~TrailingEmptyBucket) =>
        \A x \in Values : InsertThenRemoveRestores(x)

(***************************************************************************)
(* C9: after clear() the bucket array is empty, len = 0, is_empty() holds, *)
(* the tree offset is 32 and the tree has 2 * offset slots, all 0; clear() *)
(* again gives the same state; and an insert then succeeds.                *)
(***************************************************************************)
Cleared(s) ==
    /\ s.lists = <<>>
    /\ s.len = 0
    /\ is_empty(s)
    /\ s.offset = 32
    /\ DOMAIN s.tree = 0..(2 * s.offset - 1)
    /\ \A node \in DOMAIN s.tree : s.tree[node] = 0
    /\ s.panic = "none"

C9_Clear ==
    /\ panic = "none" =>
          /\ Cleared(clear(Self))
          /\ clear(clear(Self)) = clear(Self)
          /\ \A x \in Values :
                /\ insert(clear(Self), x).panic = "none"
                /\ flatten(insert(clear(Self), x)) = <<x>>
                /\ insert(clear(Self), x).len = 1
    /\ last.op = "clear" => Cleared(Self)

\* clear() has run, and the list it left takes an insert
C9_Witness ==
    /\ last.op = "clear"
    /\ _lists = <<>>
    /\ _len = 0
    /\ insert(Self, 1).len = 1

(***************************************************************************)
(* C10: between public operations, len equals the sum of the bucket sizes, *)
(* the number of items iter() yields, and tree[1].                         *)
(***************************************************************************)
C10_Len ==
    panic = "none" =>
        /\ _len = SumSizes(_lists)
        /\ _len = Len(iter(Self))
        /\ _len = _index_tree[1]

\* a remove that left two buckets or more, through the point update of the tree
C10_Witness ==
    /\ last.op = "remove"
    /\ panic = "none"
    /\ Len(_lists) >= 2
    /\ _len > _load_factor
    /\ _index_tree[1] = _len

(***************************************************************************)
(* C11: in every reachable state and for every k < len, kth_smallest(k),   *)
(* get(k) and [k] give the same element, the k-th (0-based) of flatten.    *)
(***************************************************************************)
C11_RankQueriesAgree ==
    panic = "none" =>
        LET flat == flatten(Self)
        IN  \A k \in RanksOf(Self) :
                /\ kth_smallest(Self, k) = Ok(At(flat, k))
                /\ get(Self, k) = Some(At(flat, k))
                /\ index(Self, k) = Ok(At(flat, k))

\* a remove has left three buckets or more, the first and the last ranks
\* hold different values, and the last rank is behind the second bucket
C11_Witness ==
    /\ panic = "none"
    /\ last.op = "remove"
    /\ Len(_lists) >= 3
    /\ _len > Len(At(_lists, 0)) + Len(At(_lists, 1))
    /\ kth_smallest(Self, 0) # kth_smallest(Self, _len - 1)
    /\ get(Self, _len - 1) = Some(At(flatten(Self), _len - 1))

(***************************************************************************)
(* The copies of one value: from new(), inserts of one value, one by one   *)
(* and in loops of LOAD, then removes at valid ranks, one by one and in    *)
(* loops of LOWER, and binary_search at any point.                         *)
(***************************************************************************)
\* the most loops of inserts: 3 * LOAD copies, and one more, split a bucket
\* twice
MaxFills == 3
\* the most single inserts in front of a loop and behind one
MaxCopies == 1

\* the reference holds nothing but x
OnlyCopiesOf(x) == IF Len(copy) = 0 THEN TRUE ELSE copy[1] = x /\ copy[Len(copy)] = x

InsertCopy(x) ==
    /\ panic = "none"
    /\ last.op \in {"new", "insert"}
    /\ OnlyCopiesOf(x)
    /\ _len % DEFAULT_LOAD_FACTOR < MaxCopies
    /\ \E s \in {insert(Self, x)} :
          /\ Store(s)
          /\ last' = Call("insert", <<x>>, <<>>, <<>>)
          /\ copy' = IF s.panic = "none" THEN copy_insert(copy, x) ELSE copy

InsertCopies(x) ==
    /\ panic = "none"
    /\ last.op \in {"new", "insert"}
    /\ OnlyCopiesOf(x)
    /\ _len + DEFAULT_LOAD_FACTOR <= MaxFills * DEFAULT_LOAD_FACTOR + MaxCopies
    /\ \E s \in {insert_run(Self, x, DEFAULT_LOAD_FACTOR)} :
          /\ Store(s)
          /\ last' = Loop("insert", <<x>>, <<>>, <<>>, DEFAULT_LOAD_FACTOR)
          /\ copy' = IF s.panic = "none"
                     THEN copy_insert_run(copy, x, DEFAULT_LOAD_FACTOR) ELSE copy

\* one remove, behind the inserts or behind a loop of removes
RemoveCopy(k) ==
    /\ panic = "none"
    /\ IF last.op = "insert" THEN TRUE ELSE last.times > 1
    /\ k < _len
    /\ \E r \in {remove(Self, k)} :
          /\ Store(r.s)
          /\ last' = Call("remove", <<k>>, r.ret, Ok(At(copy, k)))
          /\ copy' = IF r.s.panic = "none" THEN VecRemove(copy, k) ELSE copy

\* the ranks of the loops of removes: those of Ranks, and the one that takes
\* the last LOWER elements
LoopRanks == {k \in Ranks \cup {_len - DEFAULT_LOWER_LOAD_FACTOR} : k >= 0}

RemoveCopies(k) ==
    /\ panic = "none"
    /\ IF last.op = "insert" THEN TRUE ELSE last.times > 1
    /\ k + DEFAULT_LOWER_LOAD_FACTOR <= _len
    /\ \E r \in {remove_run([s |-> Self, ret |-> <<>>], k, DEFAULT_LOWER_LOAD_FACTOR)} :
          /\ Store(r.s)
          /\ last' = Loop("remove", <<k>>, r.ret,
                          Ok(At(copy, k + DEFAULT_LOWER_LOAD_FACTOR - 1)),
                          DEFAULT_LOWER_LOAD_FACTOR)
          /\ copy' = IF r.s.panic = "none"
                     THEN copy_remove_run(copy, k, DEFAULT_LOWER_LOAD_FACTOR) ELSE copy

NextDuplicates ==
    \/ \E x \in Values : InsertCopy(x)
    \/ \E x \in Values : InsertCopies(x)
    \/ \E k \in Ranks : RemoveCopy(k)
    \/ \E k \in LoopRanks : RemoveCopies(k)
    \/ \E x \in Values : BinarySearch(x)

SpecDuplicates == InitNew /\ [][NextDuplicates]_vars

(***************************************************************************)
(* C12: after N inserts of one value v into an empty container, N large    *)
(* enough for bucket splits, every remove at a valid rank, in any order,   *)
(* returns v, and while the container is non-empty binary_search(v)        *)
(* returns Ok(r) with 0 <= r < len.                                        *)
(***************************************************************************)
C12_Duplicates ==
    /\ panic = "none"
    /\ last.op = "remove" => last.ret = last.expect
    /\ _len > 0 =>
          /\ \A k \in RanksOf(Self) :
                LET removed == remove(Self, k)
                IN  removed.ret = Ok(copy[1]) /\ removed.s.panic = "none"
          /\ \A r \in binary_search(Self, copy[1]) :
                r[1] = "Ok" /\ 0 <= r[2] /\ r[2] < _len

\* removes have followed two splits, and the value is found behind the
\* first bucket
C12_Witness ==
    /\ last.op = "remove"
    /\ _len > 0
    /\ last.ret = Ok(copy[1])
    /\ Len(_lists) >= 3
    /\ \E r \in binary_search(Self, copy[1]) :
          r[1] = "Ok" /\ r[2] >= Len(At(_lists, 0))

(***************************************************************************)
(* C13: a container emptied by remove (its last element removed, not by    *)
(* clear) takes any further sequence of inserts without a panic, and       *)
(* flatten is then what the same inserts give on new().                    *)
(***************************************************************************)
\* the longest sequence of inserts tried on the emptied container
MaxInserts == 3

InsertSeqs == UNION {[1..n -> Values] : n \in 0..MaxInserts}

RECURSIVE InsertAll(_, _)
InsertAll(s, xs) ==
    IF xs = <<>> \/ s.panic # "none" THEN s
    ELSE InsertAll(insert(s, Head(xs)), Tail(xs))

EmptiedByRemove == panic = "none" /\ last.op = "remove" /\ _len = 0

C13_InsertAfterEmptied ==
    EmptiedByRemove =>
        \A xs \in InsertSeqs :
            /\ InsertAll(Self, xs).panic = "none"
            /\ flatten(InsertAll(Self, xs)) = flatten(InsertAll(new, xs))
            /\ InsertAll(Self, xs).len = Len(xs)

\* the last element has been removed, the bucket it was in is still there,
\* and two inserts give the two values in order
C13_Witness ==
    /\ EmptiedByRemove
    /\ _lists = <<<<>>>>
    /\ flatten(InsertAll(Self, <<2, 1>>)) = <<1, 2>>

(***************************************************************************)
(* C14: between public operations the tree is consistent with the bucket   *)
(* array: leaf offset + i holds |buckets[i]| for every bucket i, every     *)
(* other leaf is 0, and every internal node n in [1, offset) is the sum of *)
(* its two children; after a point update, after a split or a collapse    *)
(* with its rebuild, and after the insert into an empty container.         *)
(***************************************************************************)
TreeConsistent(s) ==
    /\ DOMAIN s.tree = 0..(2 * s.offset - 1)
    /\ \A i \in 0..(s.offset - 1) :
          s.tree[s.offset + i] = IF i < Len(s.lists) THEN Len(At(s.lists, i)) ELSE 0
    /\ \A n \in 1..(s.offset - 1) : s.tree[n] = s.tree[2 * n] + s.tree[2 * n + 1]

C14_TreeConsistent == panic = "none" => TreeConsistent(Self)

\* a point update has been made in a tree of 64 leaves: one insert or one
\* remove has left more than 32 buckets, the last of which is too short to
\* come from a split or a merge
C14_Witness ==
    /\ panic = "none"
    /\ last.op \in {"insert", "remove"}
    /\ last.times = 1
    /\ _index_tree_offset = 2 * DEFAULT_INDEX_TREE_OFFSET
    /\ Len(_lists) > DEFAULT_INDEX_TREE_OFFSET
    /\ Len(At(_lists, Len(_lists) - 1)) > 0
    /\ Len(At(_lists, Len(_lists) - 1)) < _lower_load_factor
    /\ TreeConsistent(Self)

(***************************************************************************)
(* C15: between public operations the tree offset is a power of two, at    *)
(* least max(32, |buckets|), and the smallest such power of two (it        *)
(* shrinks again when collapses reduce the bucket count); the tree has     *)
(* exactly 2 * offset slots.                                               *)
(***************************************************************************)
PowersOfTwo == {2 ^ j : j \in 0..16}

OffsetMinimal(s) ==
    LET atLeast == IF Len(s.lists) > 32 THEN Len(s.lists) ELSE 32
    IN  /\ s.offset \in PowersOfTwo
        /\ s.offset >= atLeast
        /\ \A p \in PowersOfTwo : p >= atLeast => s.offset <= p
        /\ DOMAIN s.tree = 0..(2 * s.offset - 1)

C15_OffsetMinimal == panic = "none" => OffsetMinimal(Self)

\* an insert has split a bucket of a list of 32 and left 33 buckets under an
\* offset of 64, and a remove then merges two of them and brings the offset
\* back to 32
C15_Witness ==
    /\ panic = "none"
    /\ last.op = "insert"
    /\ last.times = 1
    /\ Len(_lists) = DEFAULT_INDEX_TREE_OFFSET + 1
    /\ \E i \in Buckets :
          /\ i + 1 < Len(_lists)
          /\ Len(At(_lists, i)) + Len(At(_lists, i + 1)) = _upper_load_factor + 1
    /\ _index_tree_offset = 2 * DEFAULT_INDEX_TREE_OFFSET
    /\ \E k \in Ranks :
          LET removed == remove(Self, k).s
          IN  /\ removed.panic = "none"
              /\ Len(removed.lists) = DEFAULT_INDEX_TREE_OFFSET
              /\ removed.offset = DEFAULT_INDEX_TREE_OFFSET

(***************************************************************************)
(* C16: between public operations no bucket holds more than UPPER          *)
(* (= 2 * LOAD) elements, also right after a remove that made two buckets  *)
(* merge.                                                                  *)
(***************************************************************************)
C16_NoBucketOverUpper ==
    panic = "none" => \A i \in Buckets : Len(At(_lists, i)) <= _upper_load_factor

(***************************************************************************)
(* C17: between public operations a bucket holds fewer than LOWER          *)
(* (= LOAD / 2) elements only if it is the sole bucket; in particular,     *)
(* with more than one bucket, no bucket is below LOWER right after from()  *)
(* or after a collapse.                                                    *)
(***************************************************************************)
C17_BelowLowerOnlyIfSole ==
    panic = "none" =>
        \A i \in Buckets :
            Len(At(_lists, i)) < _lower_load_factor => Len(_lists) = 1

\* C17 as the code has it: a bucket holds fewer than LOWER elements only if
\* it is the last bucket (the sole bucket, or the bucket that carries the
\* remainder of from()); every bucket before the last holds at least LOWER
\* elements, also right after from() and after a collapse.
C17_BelowLowerOnlyIfLast ==
    panic = "none" =>
        \A i \in Buckets :
            Len(At(_lists, i)) < _lower_load_factor => i = Len(_lists) - 1

\* a remove has left a non-empty last bucket below LOWER behind a bucket of
\* more than LOAD elements
C17_Witness ==
    /\ panic = "none"
    /\ last.op = "remove"
    /\ Len(_lists) >= 2
    /\ Len(At(_lists, Len(_lists) - 1)) > 0
    /\ Len(At(_lists, Len(_lists) - 1)) < _lower_load_factor
    /\ \E i \in Buckets : Len(At(_lists, i)) > _load_factor

(***************************************************************************)
(* C18: between public operations, if len > 0 every bucket is non-empty,   *)
(* and if len = 0 the bucket array is empty; after from() of any size and  *)
(* after the remove of the last element too.                               *)
(***************************************************************************)
C18_NoEmptyBucket ==
    panic = "none" =>
        /\ _len > 0 => \A i \in Buckets : Len(At(_lists, i)) > 0
        /\ _len = 0 => _lists = <<>>

(***************************************************************************)
(* C19: from() of N elements cuts the sorted batch into contiguous buckets *)
(* of exactly LOAD elements, the last bucket carrying the remainder; the   *)
(* last bucket is empty only if N = 0, so for N a positive multiple of     *)
(* LOAD there are exactly N / LOAD buckets, all full.                      *)
(***************************************************************************)
C19_FromPartition ==
    (last.op = "from" /\ panic = "none") =>
        LET N == Len(last.arg)
            n == Len(_lists)
        IN  /\ Concat(_lists) = sort(last.arg)
            /\ \A i \in 0..(n - 2) : Len(At(_lists, i)) = _load_factor
            /\ n >= 1
            /\ Len(At(_lists, n - 1)) <= _load_factor
            /\ Len(At(_lists, n - 1)) = 0 => N = 0
            /\ (N > 0 /\ N % _load_factor = 0) =>
                  /\ n = N \div _load_factor
                  /\ \A i \in Buckets : Len(At(_lists, i)) = _load_factor
(***************************************************************************)
(* C20: an insert that leaves a bucket with more than UPPER elements       *)
(* always splits it (one bucket more, tree rebuilt); any other insert      *)
(* leaves the bucket count unchanged and adds 1 to tree leaf k and its     *)
(* ancestors only.  A remove that leaves a bucket with fewer than LOWER    *)
(* elements while there is more than one bucket always collapses it (one   *)
(* bucket less, tree rebuilt); any other remove leaves the bucket count    *)
(* unchanged and takes 1 off tree leaf i and its ancestors only.           *)
(* The bucket count before a call is that of the state before the call.    *)
(***************************************************************************)
Sizes(lists) == [p \in 1..Len(lists) |-> Len(lists[p])]

\* a node and its ancestors, up to the root
RECURSIVE NodeToRoot(_)
NodeToRoot(node) == IF node < 1 THEN {} ELSE {node} \cup NodeToRoot(node \div 2)

\* t is s with d added to leaf i and its ancestors, and nothing else
PointUpdate(s, t, i, d) ==
    LET path == NodeToRoot(s.offset + i)
    IN  /\ t.offset = s.offset
        /\ t.tree = [n \in DOMAIN s.tree |-> s.tree[n] + (IF n \in path THEN d ELSE 0)]

\* bucket k of e was to go over UPPER, and t has its two halves in its place
SplitAt(e, t, k) ==
    LET se == Sizes(e.lists)
        st == Sizes(t.lists)
    IN  /\ se[k + 1] + 1 > _upper_load_factor
        /\ Len(st) = Len(se) + 1
        /\ st[k + 1] + st[k + 2] = se[k + 1] + 1
        /\ st[k + 1] <= _upper_load_factor /\ st[k + 2] <= _upper_load_factor
        /\ \A p \in 1..k : st[p] = se[p]
        /\ \A p \in (k + 2)..Len(se) : st[p + 1] = se[p]
        /\ TreeConsistent(t)
        /\ OffsetMinimal(t)

\* bucket k of e took the element and did not go over UPPER
GrownAt(e, t, k) ==
    LET se == Sizes(e.lists)
    IN  /\ se[k + 1] + 1 <= _upper_load_factor
        /\ Sizes(t.lists) = [se EXCEPT ![k + 1] = @ + 1]
        /\ PointUpdate(e, t, k, 1)

\* bucket i of s was to go under LOWER, and t has it merged with bucket
\* i - 1 or i + 1 (m is the left one of the two)
CollapsedAt(s, t, i) ==
    LET ss == Sizes(s.lists)
        st == Sizes(t.lists)
    IN  /\ Len(ss) > 1
        /\ ss[i + 1] - 1 < _lower_load_factor
        /\ Len(st) = Len(ss) - 1
        /\ \E m \in {i - 1, i} :
              /\ m >= 0 /\ m + 1 < Len(ss)
              /\ st[m + 1] = ss[m + 1] + ss[m + 2] - 1
              /\ \A p \in 1..m : st[p] = ss[p]
              /\ \A p \in (m + 3)..Len(ss) : st[p - 1] = ss[p]
        /\ TreeConsistent(t)
        /\ OffsetMinimal(t)

\* bucket i of s gave the element and stayed at LOWER or more, or is the
\* sole bucket
ShrunkAt(s, t, i) ==
    LET ss == Sizes(s.lists)
    IN  /\ ss[i + 1] - 1 >= _lower_load_factor \/ Len(ss) = 1
        /\ Sizes(t.lists) = [ss EXCEPT ![i + 1] = @ - 1]
        /\ PointUpdate(s, t, i, -1)

\* the container as insert() hands it to _lists_insert: with one empty
\* bucket when len = 0
InsertEntry == IF _len = 0 THEN [Self EXCEPT !.lists = <<<<>>>>] ELSE Self

\* the bucket insert() picks for x
InsertBucket(x) == IF _len = 0 THEN Ok(0) ELSE _bisect_right_lists(Self, x)

\* the size of bucket k of s, 0 when s has no bucket k
SizeAt(s, k) == IF k < Len(s.lists) THEN Len(At(s.lists, k)) ELSE 0

\* t is s after an insert into bucket k: the bucket split if the element
\* takes it over UPPER, and one more element in it and in its leaf
\* otherwise
InsertCrossing(s, t, k) ==
    IF SizeAt(s, k) + 1 > _upper_load_factor
    THEN SplitAt(s, t, k)
    ELSE /\ Len(t.lists) = Len(s.lists)
         /\ GrownAt(s, t, k)

\* t is s after a remove from bucket i: the bucket collapsed if the
\* remove takes it under LOWER and it is not the sole one, and one element
\* less in it and in its leaf otherwise
RemoveCrossing(s, t, i) ==
    IF Len(s.lists) > 1 /\ SizeAt(s, i) - 1 < _lower_load_factor
    THEN CollapsedAt(s, t, i)
    ELSE ShrunkAt(s, t, i)

\* every remove at a rank of the list completes, and is the collapse of
\* the bucket the rank is in or the point update of its leaf
RemovesCross ==
    \A r \in RanksOf(Self) :
        LET t == remove(Self, r).s
            i == _locate_kth_element(Self, r)[2][1]
        IN  /\ t.panic = "none"
            /\ RemoveCrossing(Self, t, i)

\* C20, as stated: measured against the state before the call, every
\* insert that completes either takes the bucket k it goes to over UPPER
\* and splits it (one bucket more, tree rebuilt), or leaves the bucket count
\* unchanged and adds 1 to leaf k and its ancestors only; every remove
\* either takes its bucket under LOWER while there are several and
\* collapses it (one bucket less, tree rebuilt), or leaves the bucket count
\* unchanged and takes 1 off leaf i and its ancestors only.
C20_ThresholdCrossing ==
    panic = "none" =>
        /\ \A x \in Values :
              LET t == insert(Self, x)
                  k == InsertBucket(x)
              IN  t.panic = "none" =>
                      /\ k[1] = "Ok"
                      /\ InsertCrossing(Self, t, k[2])
        /\ RemovesCross

\* C20, amended: the statement holds, against the state before the call,
\* of every insert into a container that holds elements and of every
\* remove.  The insert into an empty container (len = 0) leaves exactly one
\* bucket, with the element in it, whatever the bucket count was before (0
\* after new() and clear(), 1 after from() of an empty batch and after the
\* remove of the last element), with no split, and adds 1 to leaf 0 and its
\* ancestors only.
C20_CrossingOrFirstInsert ==
    panic = "none" =>
        /\ \A x \in Values :
              LET t == insert(Self, x)
                  k == InsertBucket(x)
              IN  t.panic = "none" =>
                      /\ k[1] = "Ok"
                      /\ IF _len = 0
                         THEN /\ Len(_lists) \in {0, 1}
                              /\ t.lists = <<<<x>>>>
                              /\ PointUpdate(Self, t, 0, 1)
                         ELSE InsertCrossing(Self, t, k[2])
        /\ RemovesCross

\* an insert has filled a bucket to UPPER next to a bucket of LOWER: the
\* next insert splits the one, the next remove collapses the other
C20_Witness ==
    /\ panic = "none"
    /\ last.op = "insert"
    /\ Len(_lists) = 2
    /\ \E x \in Values :
          /\ InsertBucket(x) = Ok(0)
          /\ SplitAt(Self, insert(Self, x), 0)
    /\ \E x \in Values :
          /\ InsertBucket(x) = Ok(1)
          /\ GrownAt(Self, insert(Self, x), 1)
    /\ \E r \in RanksOf(Self) :
          /\ _locate_kth_element(Self, r) = Ok(<<1, 0>>)
          /\ CollapsedAt(Self, remove(Self, r).s, 1)
    /\ \E r \in RanksOf(Self) :
          /\ _locate_kth_element(Self, r)[2][1] = 0
          /\ ShrunkAt(Self, remove(Self, r).s, 0)

(***************************************************************************)
(* C21: a split of bucket i of size s keeps elements [0, s/2) in bucket i  *)
(* and moves elements [s/2, s), in the same order, into a new bucket at    *)
(* position i + 1 (integer division); every other bucket keeps its content *)
(* and its place in the order, and the flattened sequence is unchanged.    *)
(***************************************************************************)
\* t is m with bucket i of m cut in two at half its size
SplitKeeps(m, t, i) ==
    LET b == At(m.lists, i)
        size == Len(b)
    IN  /\ t.panic = "none"
        /\ Len(t.lists) = Len(m.lists) + 1
        /\ At(t.lists, i) = SubSeq(b, 1, size \div 2)
        /\ At(t.lists, i + 1) = SubSeq(b, size \div 2 + 1, size)
        /\ Len(At(t.lists, i)) = size \div 2
        /\ \A p \in 0..(i - 1) : At(t.lists, p) = At(m.lists, p)
        /\ \A p \in (i + 1)..(Len(m.lists) - 1) : At(t.lists, p + 1) = At(m.lists, p)
        /\ flatten(t) = flatten(m)
        /\ t.len = m.len

\* the container inside _lists_insert, when the element is in bucket i and
\* the size of the bucket has not been looked at yet
InsertMid(s, i, element) ==
    [s EXCEPT !.lists = VecSet(s.lists, i, insert_at_pos(At(s.lists, i), element)),
              !.len = @ + 1]

C21_Split ==
    panic = "none" =>
        /\ \A i \in Buckets :
              Len(At(_lists, i)) > _upper_load_factor => SplitKeeps(Self, _expand(Self, i), i)
        /\ \A x \in Values :
              InsertBucket(x)[1] = "Ok" =>
                  LET i == InsertBucket(x)[2]
                      m == InsertMid(InsertEntry, i, x)
                  IN  Len(At(m.lists, i)) > _upper_load_factor =>
                          /\ insert(Self, x) = _expand(m, i)
                          /\ SplitKeeps(m, insert(Self, x), i)

\* a loop of inserts has filled a bucket between two others to UPPER, and
\* one more insert splits it
C21_Witness ==
    /\ panic = "none"
    /\ last.op = "insert"
    /\ \E i \in Buckets :
          /\ 0 < i /\ i + 1 < Len(_lists)
          /\ Len(At(_lists, i)) = _upper_load_factor
          /\ \E x \in Values :
                /\ InsertBucket(x) = Ok(i)
                /\ Len(insert(Self, x).lists) = Len(_lists) + 1
                /\ SplitKeeps(InsertMid(Self, i, x), insert(Self, x), i)

(***************************************************************************)
(* C22: a collapse at i merges bucket i with its smaller neighbour: with   *)
(* the left one iff |buckets[i-1]| < |buckets[i+1]| (a missing neighbour   *)
(* counts as infinitely large), with the right one on a tie; the content   *)
(* of the right-hand bucket goes behind the content of the left-hand one,  *)
(* the emptied bucket is removed, and the flattened sequence is unchanged. *)
(***************************************************************************)
\* bucket i of m is merged with the left neighbour
MergesLeft(m, i) ==
    /\ i >= 1
    /\ i + 1 < Len(m.lists) => Len(At(m.lists, i - 1)) < Len(At(m.lists, i + 1))

\* t is m with bucket i merged into its smaller neighbour (lo is the left
\* one of the two buckets that are merged)
MergeKeeps(m, t, i) ==
    LET lo == IF MergesLeft(m, i) THEN i - 1 ELSE i
    IN  /\ t.panic = "none"
        /\ Len(t.lists) = Len(m.lists) - 1
        /\ At(t.lists, lo) = At(m.lists, lo) \o At(m.lists, lo + 1)
        /\ \A p \in 0..(lo - 1) : At(t.lists, p) = At(m.lists, p)
        /\ \A p \in (lo + 2)..(Len(m.lists) - 1) : At(t.lists, p - 1) = At(m.lists, p)
        /\ flatten(t) = flatten(m)
        /\ t.len = m.len
        /\ TreeConsistent(t)

\* the container inside _lists_remove, when the element is out of bucket i
\* and the size of the bucket has not been looked at yet
RemoveMid(s, i, j) ==
    [s EXCEPT !.lists = VecSet(s.lists, i, VecRemove(At(s.lists, i), j)),
              !.len = @ - 1]

C22_Collapse ==
    panic = "none" =>
        /\ Len(_lists) > 1 =>
              \A i \in Buckets : MergeKeeps(Self, _collapse(Self, i), i)
        /\ \A r \in Ranks :
              r < _len =>
                  LET loc == _locate_kth_element(Self, r)[2]
                      m == RemoveMid(Self, loc[1], loc[2])
                      t == remove(Self, r).s
                  IN  (Len(m.lists) > 1 /\ Len(At(m.lists, loc[1])) < _lower_load_factor) =>
                          /\ t = _collapse(m, loc[1])
                          /\ MergeKeeps(m, t, loc[1])

\* a remove from the second bucket of a list, between two neighbours of one
\* size, merges it with the right one
C22_Witness ==
    /\ panic = "none"
    /\ last.op = "remove"
    /\ Len(_lists) >= 3
    /\ Len(At(_lists, 0)) = Len(At(_lists, 2))
    /\ Len(At(_lists, 1)) = _lower_load_factor
    /\ \E r \in Ranks :
          /\ r < _len
          /\ _locate_kth_element(Self, r)[2][1] = 1
          /\ Len(remove(Self, r).s.lists) = Len(_lists) - 1
          /\ At(remove(Self, r).s.lists, 0) = At(_lists, 0)
          /\ Len(At(remove(Self, r).s.lists, 1)) = Len(At(_lists, 1)) - 1 + Len(At(_lists, 2))

(***************************************************************************)
(* C23: in every reachable state and for every k with 0 <= k < len, the    *)
(* rank descent _locate_kth_element(k) ends at a leaf and returns (i, j)   *)
(* with i < |buckets|, j < |buckets[i]| and k = (the sum of |buckets[t]|,  *)
(* t < i) + j; it never lands on the leaf of an empty or missing bucket.   *)
(***************************************************************************)
C23_Locate ==
    panic = "none" =>
        \A k \in RanksOf(Self) :
            LET loc == _locate_kth_element(Self, k)
            IN  /\ loc[1] = "Ok"
                /\ LET i == loc[2][1]
                       j == loc[2][2]
                   IN  /\ 0 <= i /\ i < Len(_lists)
                       /\ Len(At(_lists, i)) > 0
                       /\ 0 <= j /\ j < Len(At(_lists, i))
                       /\ k = SizeBefore(_lists, i) + j

\* the last rank of a list of three buckets or more, behind an insert or a
\* remove, is located in the last bucket, which is not bucket 0 or 1
C23_Witness ==
    /\ panic = "none"
    /\ last.op \in {"insert", "remove"}
    /\ Len(_lists) >= 3
    /\ \A i \in Buckets : Len(At(_lists, i)) > 0
    /\ _locate_kth_element(Self, _len - 1) =
          Ok(<<Len(_lists) - 1, Len(At(_lists, Len(_lists) - 1)) - 1>>)
    /\ _locate_kth_element(Self, Len(At(_lists, 0))) = Ok(<<1, 0>>)

(***************************************************************************)
(* C24: in every reachable non-empty state and for every x,                *)
(* _bisect_right_lists(x) returns the greatest bucket index k with         *)
(* first(buckets[k]) <= x, or 0 if x < first(buckets[0]); for every bucket *)
(* count, 1 and 2 included, where the loop body is never entered.          *)
(***************************************************************************)
\* the buckets whose first element is <= x
HeadAtMost(lists, x) ==
    {k \in 0..(Len(lists) - 1) : Len(At(lists, k)) > 0 /\ At(At(lists, k), 0) <= x}

GreatestHeadAtMost(lists, x) ==
    IF HeadAtMost(lists, x) = {} THEN 0
    ELSE CHOOSE k \in HeadAtMost(lists, x) : \A h \in HeadAtMost(lists, x) : h <= k

C24_Bisect ==
    (panic = "none" /\ _len > 0) =>
        \A x \in Values :
            _bisect_right_lists(Self, x) = Ok(GreatestHeadAtMost(_lists, x))

\* what is left of C24 in the states where from() left no empty bucket
C24_BisectWithoutEmptyBucket ==
    (panic = "none" /\ _len > 0 /\ ~TrailingEmptyBucket) =>
        \A x \in Values :
            _bisect_right_lists(Self, x) = Ok(GreatestHeadAtMost(_lists, x))

(***************************************************************************)
(* C25: the internal consistency failures are not reachable through the    *)
(* public methods with ranks in range: _collapse never runs with one       *)
(* bucket or with both neighbours missing, _expand never hits "Unnecessary *)
(* expand", _lists_remove never hits its out-of-range panic, and a point   *)
(* update of the tree never subtracts from a leaf that is 0 nor addresses  *)
(* a leaf index >= the tree offset.                                        *)
(***************************************************************************)
InternalPanics ==
    {"Attempting to collapse", "assertion failed", "Unnecessary expand",
     "List index out of range", "attempt to subtract with overflow"}

C25_NoInternalFailure ==
    /\ panic \notin InternalPanics
    /\ panic = "none" =>
          /\ \A x \in Values :
                LET t == insert(Self, x)
                    b == InsertBucket(x)
                IN  /\ t.panic \notin InternalPanics
                    \* the one panic of insert is the read of a bucket head
                    /\ t.panic # "none" =>
                          _len > 0 /\ _bisect_right_lists(Self, x)[1] = "Panic"
                    \* the leaf the point update writes is a leaf of the tree
                    /\ b[1] = "Ok" => b[2] < _index_tree_offset
          /\ \A r \in Ranks :
                r < _len =>
                    LET t == remove(Self, r)
                        i == _locate_kth_element(Self, r)[2][1]
                    IN  /\ t.s.panic = "none"
                        /\ t.ret[1] = "Ok"
                        /\ i < _index_tree_offset
                        /\ _index_tree[_index_tree_offset + i] > 0
          /\ clear(Self).panic = "none"

\* a remove has merged the two buckets of a list into one, which only a
\* merge makes larger than UPPER, and the next removes take from it
C25_Witness ==
    /\ panic = "none"
    /\ last.op = "remove"
    /\ Len(_lists) = 1
    /\ Len(At(_lists, 0)) > _upper_load_factor
    /\ \A r \in Ranks : r < _len => remove(Self, r).s.panic = "none"

(***************************************************************************)
(* C26: for every 0 <= ql <= qr < offset, _index_tree_sum(ql, qr) is the   *)
(* sum of |buckets[t]| for t in [ql, qr], a missing bucket counting 0; so  *)
(* the prefix binary_search adds for bucket k is the number of elements in *)
(* buckets 0..k-1.                                                         *)
(***************************************************************************)
\* the ends of the ranges asked for: every bucket, the two leaves behind the
\* buckets and the last leaf
QueryEnds ==
    {q \in 0..(Len(_lists) + 1) : q < _index_tree_offset} \cup {_index_tree_offset - 1}

\* the number of elements in buckets ql..qr, from the numbers of elements
\* before every bucket
SizeBetween(before, ql, qr) ==
    before[Min(qr + 1, Len(_lists))] - before[Min(ql, Len(_lists))]

C26_RangeSum ==
    panic = "none" =>
        \A before \in {[i \in 0..Len(_lists) |-> SizeBefore(_lists, i)]} :
            /\ \A ql \in QueryEnds : \A qr \in QueryEnds :
                  ql <= qr => index_tree_sum(Self, ql, qr) = SizeBetween(before, ql, qr)
            /\ \A k \in Buckets :
                  k >= 1 => index_tree_sum(Self, 0, k - 1) = before[k]

\* three buckets or more behind an insert or a remove: the sum over the
\* second and the third is neither 0 nor the whole
C26_Witness ==
    /\ panic = "none"
    /\ last.op \in {"insert", "remove"}
    /\ Len(_lists) >= 3
    /\ index_tree_sum(Self, 1, 2) = Len(At(_lists, 1)) + Len(At(_lists, 2))
    /\ index_tree_sum(Self, 1, 2) > 0
    /\ index_tree_sum(Self, 1, 2) < _len
    /\ index_tree_sum(Self, 0, _index_tree_offset - 1) = _len

(***************************************************************************)
(* C27: _expand called on a bucket whose size is not strictly greater than *)
(* UPPER, a bucket of exactly UPPER elements included, ends in a panic and *)
(* does not split the bucket.                                              *)
(***************************************************************************)
ExpandRefused(s, i) ==
    /\ _expand(s, i).panic = "Unnecessary expand"
    /\ _expand(s, i).lists = s.lists
    /\ _expand(s, i).tree = s.tree

C27_ExpandRefusedUpToUpper ==
    panic = "none" =>
        \A i \in Buckets :
            Len(At(_lists, i)) <= _upper_load_factor => ExpandRefused(Self, i)

\* what the code keeps: the panic for a bucket below UPPER
C27_ExpandRefusedBelowUpper ==
    panic = "none" =>
        \A i \in Buckets :
            Len(At(_lists, i)) < _upper_load_factor => ExpandRefused(Self, i)

====
